---- MODULE Spec2Model ----
(***************************************************************************)
(* Model of generate_schedule (src/app.py): the weekly watering allocator. *)
(* One run of generate_schedule is one behaviour.  Init draws the call's   *)
(* arguments; every local variable of the function is a variable of the    *)
(* model; the actions are the function's steps in program order.           *)
(*                                                                         *)
(* Dates are proleptic Gregorian ordinals (date.toordinal()), so that      *)
(* timedelta arithmetic is integer arithmetic and date.weekday() is        *)
(* (ordinal + 6) % 7.  ha is held as a number of 1/HaDen hectares.         *)
(* The water-volume columns of a row (floats derived from the row's block  *)
(* count) are not part of the model.                                       *)
(***************************************************************************)
EXTENDS Integers, Sequences, FiniteSets, TLC

\* ---- bounds of the explored argument space ----
MaxStartOrdinal == 7
MaxWeeks == 2
MaxHa == 4
MaxBlocksPerHa == 4
MaxTreesPerBlock == 1
MaxEvents == 3
MaxCap == 3

\* ha is given in halves of a hectare (the form steps by 0.5)
HaDen == 2

VARIABLES start_date, weeks, ha, blocks_per_ha, trees_per_block,
          events_per_week, max_blocks_per_day, rest_on_sunday,
          pc, total_blocks, end_date, block_ids, warnings, rows, w,
          week_days, D, required, capacity, assignable,
          day_targets, day_remaining, assignments, block_day_used,
          assigned_count, k, rotated_blocks, day_order, day_idx, bi,
          df, meta

args == <<start_date, weeks, ha, blocks_per_ha, trees_per_block,
          events_per_week, max_blocks_per_day, rest_on_sunday>>

weekLocals == <<week_days, D, required, capacity, assignable, day_targets,
                day_remaining, assignments, block_day_used, assigned_count>>

passLocals == <<rotated_blocks, day_order, day_idx, bi>>

vars == <<start_date, weeks, ha, blocks_per_ha, trees_per_block,
          events_per_week, max_blocks_per_day, rest_on_sunday,
          pc, total_blocks, end_date, block_ids, warnings, rows, w,
          week_days, D, required, capacity, assignable,
          day_targets, day_remaining, assignments, block_day_used,
          assigned_count, k, rotated_blocks, day_order, day_idx, bi,
          df, meta>>

\* ---- helpers -----------------------------------------------------------

\* Python's None for chosen_day; date ordinals start at 1
None == 0

Min(a, b) == IF a <= b THEN a ELSE b

Max(a, b) == IF a >= b THEN a ELSE b

Range(s) == {s[i] : i \in DOMAIN s}

EmptyDict == [x \in {} |-> 0]

\* dict.get(key, default)
DictGet(dict, key, default) == IF key \in DOMAIN dict THEN dict[key] ELSE default

\* s[n:] and s[:n] for n >= 0
SliceFrom(s, n) == SubSeq(s, Min(n, Len(s)) + 1, Len(s))

SliceTo(s, n) == SubSeq(s, 1, Min(n, Len(s)))

\* date.weekday(): Monday = 0 ... Sunday = 6
Weekday(d) == (d + 6) % 7

\* daterange(start, end): every day from start to end inclusive
daterange(start, end) == [i \in 1..Max(end - start + 1, 0) |-> start + i - 1]

is_sunday(d) == Weekday(d) = 6

make_block_ids(n) == [i \in 1..Max(n, 0) |-> i]

\* int(round(ha * blocks_per_ha)) with ha = num/den: round half to even
RoundHalfEven(num, den) ==
    LET q == num \div den
        r == num % den
    IN  IF 2 * r < den THEN q
        ELSE IF 2 * r > den THEN q + 1
        ELSE IF q % 2 = 0 THEN q ELSE q + 1

TotalBlocks(haNum, bph) == RoundHalfEven(haNum * bph, HaDen)

IsDegenerateLt(tb) == tb < 0

\* the guard of the early return
IsDegenerate(tb) == tb <= 0

EndDateShort(start, nweeks) == start + nweeks * 7 - 2

EndDate(start, nweeks) == start + nweeks * 7 - 1

\* the week's days inside the horizon, minus Sundays when resting
WeekDays(start, endd, wk, rest) ==
    LET wk_start == start + wk * 7
        wk_end == wk_start + 6
        inHorizon == SelectSeq(daterange(wk_start, wk_end),
                               LAMBDA d : start <= d /\ d <= endd)
    IN  IF rest THEN SelectSeq(inHorizon, LAMBDA d : ~is_sunday(d))
        ELSE inHorizon

NeedsWarningGe(req, cap) == req >= cap

NeedsWarning(req, cap) == req > cap

TargetRemNone(total_assignable, n) == 0

TargetRem(total_assignable, n) == total_assignable % n

TargetOfLe(i, base, rem, max_per_day) ==
    Min(base + (IF i <= rem THEN 1 ELSE 0), max_per_day)

\* target of the day at 0-based position i
TargetOf(i, base, rem, max_per_day) ==
    Min(base + (IF i < rem THEN 1 ELSE 0), max_per_day)

_even_targets(days, total_assignable, max_per_day) ==
    IF Len(days) <= 0 THEN EmptyDict
    ELSE LET base == total_assignable \div Len(days)
             rem == TargetRem(total_assignable, Len(days))
         IN  [d \in Range(days) |->
                 TargetOf((CHOOSE i \in 1..Len(days) : days[i] = d) - 1,
                          base, rem, max_per_day)]

RotatedBlocksNoWrap(ids, n) == SliceFrom(ids, n)

RotatedBlocks(ids, n) == SliceFrom(ids, n) \o SliceTo(ids, n)

DayOrder(days, n) ==
    SliceFrom(days, n % Len(days)) \o SliceTo(days, n % Len(days))

HasCapacityGe(remaining) == remaining >= 0

HasCapacity(remaining) == remaining > 0

RECURSIVE FirstPassAnyDay(_, _, _, _, _, _)
FirstPassAnyDay(order, n, remaining, used, idx, tries) ==
    IF tries < n
    THEN LET d == order[(idx % n) + 1]
         IN  IF HasCapacity(DictGet(remaining, d, 0))
             THEN [chosen |-> d, day_idx |-> idx]
             ELSE FirstPassAnyDay(order, n, remaining, used, idx + 1, tries + 1)
    ELSE [chosen |-> None, day_idx |-> idx]

\* first probe loop: a day with capacity left that has not had this block
RECURSIVE FirstPass(_, _, _, _, _, _)
FirstPass(order, n, remaining, used, idx, tries) ==
    IF tries < n
    THEN LET d == order[(idx % n) + 1]
         IN  IF HasCapacity(DictGet(remaining, d, 0)) /\ d \notin used
             THEN [chosen |-> d, day_idx |-> idx]
             ELSE FirstPass(order, n, remaining, used, idx + 1, tries + 1)
    ELSE [chosen |-> None, day_idx |-> idx]

\* second probe loop: any day with capacity left
RECURSIVE SecondPass(_, _, _, _, _)
SecondPass(order, n, remaining, idx, tries) ==
    IF tries < n
    THEN LET d == order[(idx % n) + 1]
         IN  IF HasCapacity(DictGet(remaining, d, 0))
             THEN [chosen |-> d, day_idx |-> idx]
             ELSE SecondPass(order, n, remaining, idx + 1, tries + 1)
    ELSE [chosen |-> None, day_idx |-> idx]

\* the text of a warning, kept as its interpolated values
InvalidInputWarning ==
    [kind |-> "invalid_input", week |-> 0, required |-> 0, total_blocks |-> 0,
     events_per_week |-> 0, capacity |-> 0, D |-> 0, max_blocks_per_day |-> 0]

CapacityWarning(wk, req, tb, ev, cap, n, mx) ==
    [kind |-> "over_capacity", week |-> wk + 1, required |-> req,
     total_blocks |-> tb, events_per_week |-> ev, capacity |-> cap, D |-> n,
     max_blocks_per_day |-> mx]

Row(d, wk, b_list, tpb) ==
    [date |-> d, weekday |-> Weekday(d), week |-> wk + 1,
     count |-> Len(b_list), blocks |-> b_list, trees |-> Len(b_list) * tpb]

\* ---- initial state: the arguments of one call ---------------------------

Init ==
    /\ start_date \in 1..MaxStartOrdinal
    /\ weeks \in 1..MaxWeeks
    /\ ha \in 0..MaxHa
    /\ blocks_per_ha \in 1..MaxBlocksPerHa
    /\ trees_per_block \in 1..MaxTreesPerBlock
    /\ events_per_week \in 1..MaxEvents
    /\ max_blocks_per_day \in 1..MaxCap
    /\ rest_on_sunday \in BOOLEAN
    /\ pc = "start"
    /\ total_blocks = 0
    /\ end_date = 0
    /\ block_ids = <<>>
    /\ warnings = <<>>
    /\ rows = <<>>
    /\ w = 0
    /\ week_days = <<>>
    /\ D = 0
    /\ required = 0
    /\ capacity = 0
    /\ assignable = 0
    /\ day_targets = EmptyDict
    /\ day_remaining = EmptyDict
    /\ assignments = EmptyDict
    /\ block_day_used = EmptyDict
    /\ assigned_count = 0
    /\ k = 0
    /\ rotated_blocks = <<>>
    /\ day_order = <<>>
    /\ day_idx = 0
    /\ bi = 1
    /\ df = <<>>
    /\ meta = [total_blocks |-> 0, warnings |-> <<>>]

\* ---- actions ------------------------------------------------------------

\* lines 59-68: block count, early return on a degenerate count, set-up
Begin ==
    /\ pc = "start"
    /\ LET tb == TotalBlocks(ha, blocks_per_ha)
       IN  /\ total_blocks' = tb
           /\ IF IsDegenerate(tb)
              THEN /\ pc' = "done"
                   /\ df' = <<>>
                   /\ meta' = [total_blocks |-> 0,
                               warnings |-> <<InvalidInputWarning>>]
                   /\ UNCHANGED <<end_date, block_ids>>
              ELSE /\ pc' = "week"
                   /\ end_date' = EndDate(start_date, weeks)
                   /\ block_ids' = make_block_ids(tb)
                   /\ UNCHANGED <<df, meta>>
    /\ warnings' = <<>>
    /\ rows' = <<>>
    /\ w' = 0
    /\ UNCHANGED <<args, weekLocals, k, passLocals>>

\* lines 70-105: head of the week loop
WeekBegin ==
    /\ pc = "week"
    /\ w < weeks
    /\ LET days == WeekDays(start_date, end_date, w, rest_on_sunday)
           n == Len(days)
           req == total_blocks * events_per_week
           cap == n * max_blocks_per_day
           asg == Min(req, cap)
           targets == _even_targets(days, asg, max_blocks_per_day)
       IN  /\ week_days' = days
           /\ IF days = <<>>
              THEN /\ w' = w + 1
                   /\ UNCHANGED <<pc, D, required, capacity, assignable,
                                  day_targets, day_remaining, warnings,
                                  assignments, block_day_used, assigned_count,
                                  k>>
              ELSE /\ D' = n
                   /\ required' = req
                   /\ capacity' = cap
                   /\ assignable' = asg
                   /\ day_targets' = targets
                   /\ day_remaining' = targets
                   /\ warnings' =
                        IF NeedsWarning(req, cap)
                        THEN Append(warnings,
                                    CapacityWarning(w, req, total_blocks,
                                                    events_per_week, cap, n,
                                                    max_blocks_per_day))
                        ELSE warnings
                   /\ assignments' = [d \in Range(days) |-> <<>>]
                   /\ block_day_used' = [b \in Range(block_ids) |-> {}]
                   /\ assigned_count' = 0
                   /\ k' = 0
                   /\ pc' = "pass"
                   /\ UNCHANGED w
    /\ UNCHANGED <<args, total_blocks, end_date, block_ids, rows, passLocals,
                   df, meta>>

\* lines 107-111: head of the pass loop
PassBegin ==
    /\ pc = "pass"
    /\ k < events_per_week
    /\ rotated_blocks' = RotatedBlocks(block_ids, k)
    /\ day_order' = DayOrder(week_days, k)
    /\ day_idx' = 0
    /\ bi' = 1
    /\ pc' = "block"
    /\ UNCHANGED <<args, total_blocks, end_date, block_ids, warnings, rows, w,
                   weekLocals, k, df, meta>>

\* lines 113-149: one iteration of the block loop
BlockStep ==
    /\ pc = "block"
    /\ bi <= Len(rotated_blocks)
    /\ LET b == rotated_blocks[bi]
           p1 == FirstPass(day_order, D, day_remaining, block_day_used[b],
                           day_idx, 0)
           p2 == IF p1.chosen = None
                 THEN SecondPass(day_order, D, day_remaining, p1.day_idx, 0)
                 ELSE p1
           chosen_day == p2.chosen
       IN  IF assigned_count >= assignable
           THEN /\ pc' = "pass"
                /\ k' = k + 1
                /\ UNCHANGED <<assignments, block_day_used, day_remaining,
                               assigned_count, day_idx, bi>>
           ELSE IF chosen_day = None
           THEN /\ pc' = "pass"
                /\ k' = k + 1
                /\ day_idx' = p2.day_idx
                /\ UNCHANGED <<assignments, block_day_used, day_remaining,
                               assigned_count, bi>>
           ELSE /\ assignments' =
                      [assignments EXCEPT ![chosen_day] = Append(@, b)]
                /\ block_day_used' =
                      [block_day_used EXCEPT ![b] = @ \cup {chosen_day}]
                /\ day_remaining' = [day_remaining EXCEPT ![chosen_day] = @ - 1]
                /\ assigned_count' = assigned_count + 1
                /\ day_idx' = p2.day_idx + 1
                /\ bi' = bi + 1
                /\ UNCHANGED <<pc, k>>
    /\ UNCHANGED <<args, total_blocks, end_date, block_ids, warnings, rows, w,
                   week_days, D, required, capacity, assignable, day_targets,
                   rotated_blocks, day_order, df, meta>>

\* line 113: the block loop runs out of blocks
PassEnd ==
    /\ pc = "block"
    /\ bi > Len(rotated_blocks)
    /\ pc' = "pass"
    /\ k' = k + 1
    /\ UNCHANGED <<args, total_blocks, end_date, block_ids, warnings, rows, w,
                   weekLocals, passLocals, df, meta>>

\* lines 151-178: the week's rows, one per day of week_days
WeekEnd ==
    /\ pc = "pass"
    /\ k >= events_per_week
    /\ rows' = rows \o [i \in 1..Len(week_days) |->
                          Row(week_days[i], w,
                              DictGet(assignments, week_days[i], <<>>),
                              trees_per_block)]
    /\ w' = w + 1
    /\ pc' = "week"
    /\ UNCHANGED <<args, total_blocks, end_date, block_ids, warnings,
                   weekLocals, k, passLocals, df, meta>>

\* lines 180-195: the result
Return ==
    /\ pc = "week"
    /\ w >= weeks
    /\ df' = rows
    /\ meta' = [ha |-> ha, blocks_per_ha |-> blocks_per_ha,
                trees_per_block |-> trees_per_block,
                total_blocks |-> total_blocks,
                events_per_week |-> events_per_week,
                max_blocks_per_day |-> max_blocks_per_day,
                weeks |-> weeks, rest_on_sunday |-> rest_on_sunday,
                warnings |-> warnings]
    /\ pc' = "done"
    /\ UNCHANGED <<args, total_blocks, end_date, block_ids, warnings, rows, w,
                   weekLocals, k, passLocals>>

Next ==
    \/ Begin
    \/ WeekBegin
    \/ PassBegin
    \/ BlockStep
    \/ PassEnd
    \/ WeekEnd
    \/ Return

Spec == Init /\ [][Next]_vars

\* ---- properties ---------------------------------------------------------

RECURSIVE SumSeq(_)
SumSeq(s) == IF s = <<>> THEN 0 ELSE s[1] + SumSeq(Tail(s))

\* number of times x occurs in the sequence s
Occurrences(s, x) == Cardinality({i \in DOMAIN s : s[i] = x})

NoRepeat(s) == \A i, j \in DOMAIN s : s[i] = s[j] => i = j

\* a week's allocation is under way or finished (its locals are set)
InWeek == pc \in {"pass", "block"}

\* every pass of the current week has run; its rows are not yet emitted
AllocDone == pc = "pass" /\ k >= events_per_week

\* counts of the current week, day by day in day order
DayCounts == [i \in 1..Len(week_days) |-> Len(assignments[week_days[i]])]

\* demand and supply of the current week, from the arguments and the days
WeekRequired == total_blocks * events_per_week

WeekCapacity == Len(week_days) * max_blocks_per_day

RowsOfWeek(rs, wk) == SelectSeq(rs, LAMBDA r : r.week = wk)

\* C1: at every step of the allocation of every week no day holds more than
\* max_blocks_per_day blocks and no day's remaining capacity is negative;
\* the same cap holds for every emitted row.
C1_DayCap ==
    /\ InWeek =>
          \A d \in Range(week_days) :
             /\ Len(assignments[d]) <= max_blocks_per_day
             /\ day_remaining[d] >= 0
    /\ \A i \in DOMAIN rows : rows[i].count <= max_blocks_per_day

\* a day filled to the cap while further blocks are still being placed
C1_Witness ==
    /\ pc = "block"
    /\ assigned_count >= 2
    /\ assigned_count < assignable
    /\ \E d \in Range(week_days) :
          Len(assignments[d]) = max_blocks_per_day /\ day_remaining[d] = 0

\* C2: when a week's allocation is finished the per-day counts sum to
\* min(required, capacity): required if it fits, capacity otherwise; the
\* emitted rows of every week sum to the same number.
C2_WeekTotal ==
    /\ AllocDone =>
          /\ SumSeq(DayCounts) = Min(WeekRequired, WeekCapacity)
          /\ WeekRequired <= WeekCapacity => SumSeq(DayCounts) = WeekRequired
          /\ WeekRequired > WeekCapacity => SumSeq(DayCounts) = WeekCapacity
    /\ pc = "done" /\ total_blocks >= 1 =>
          \A wk \in 1..weeks :
             LET rs == RowsOfWeek(df, wk)
             IN  SumSeq([i \in DOMAIN rs |-> rs[i].count]) =
                    Min(WeekRequired, Len(rs) * max_blocks_per_day)

\* a finished week whose demand exceeded its capacity and was clamped
C2_Witness ==
    /\ AllocDone
    /\ WeekRequired > WeekCapacity
    /\ SumSeq(DayCounts) = WeekCapacity
    /\ assigned_count = WeekCapacity

\* C3: if events_per_week is at most the number of eligible days, no day's
\* block list contains the same block twice.
C3_NoSameDayDuplicate ==
    InWeek /\ events_per_week <= Len(week_days) =>
       \A d \in Range(week_days) : NoRepeat(assignments[d])

\* C4: the returned warnings are exactly one over-capacity warning per week
\* whose demand exceeds its capacity, in week order, and every week has rows.
C4_WarningsPerShortWeek ==
    pc = "done" /\ total_blocks >= 1 =>
       LET ws == meta.warnings
           short == {wk \in 1..weeks :
                        WeekRequired >
                           Len(RowsOfWeek(df, wk)) * max_blocks_per_day}
       IN  /\ Len(ws) = Cardinality(short)
           /\ {ws[i].week : i \in DOMAIN ws} = short
           /\ \A i \in DOMAIN ws : ws[i].kind = "over_capacity"
           /\ \A i, j \in DOMAIN ws : i < j => ws[i].week < ws[j].week
           /\ \A wk \in 1..weeks : Len(RowsOfWeek(df, wk)) >= 1

\* a finished run of two weeks, both short of capacity, both with rows
C4_Witness ==
    /\ pc = "done"
    /\ weeks = 2
    /\ Len(meta.warnings) = 2
    /\ meta.warnings[2].week = 2
    /\ Len(df) > 0
    /\ SumSeq([i \in DOMAIN df |-> df[i].count]) < 2 * WeekRequired

\* C5: a block count <= 0 returns no rows and exactly the invalid-input
\* warning without entering the week loop; a block count >= 1 never
\* produces that warning.
C5_DegenerateInput ==
    /\ pc # "start" /\ total_blocks <= 0 =>
          /\ pc = "done"
          /\ df = <<>>
          /\ rows = <<>>
          /\ week_days = <<>>
          /\ meta.warnings = <<InvalidInputWarning>>
    /\ pc # "start" /\ total_blocks >= 1 =>
          /\ \A i \in DOMAIN warnings : warnings[i] # InvalidInputWarning
          /\ \A i \in DOMAIN meta.warnings :
                meta.warnings[i] # InvalidInputWarning

\* a positive area whose block count rounds to zero
C5_Witness ==
    /\ pc = "done"
    /\ ha > 0
    /\ total_blocks = 0
    /\ df = <<>>
    /\ Len(meta.warnings) = 1

\* C6: the targets of a week are the even split of min(required, capacity):
\* the first (assignable mod D) days get the quotient plus one, the others
\* the quotient; they differ by at most 1, sum to assignable and none
\* exceeds max_blocks_per_day.
C6_EvenTargets ==
    InWeek =>
       LET n == Len(week_days)
           a == Min(WeekRequired, WeekCapacity)
           t == [i \in 1..n |-> day_targets[week_days[i]]]
       IN  /\ DOMAIN day_targets = Range(week_days)
           /\ \A i \in 1..n :
                 t[i] = (a \div n) + (IF i <= a % n THEN 1 ELSE 0)
           /\ \A i, j \in 1..n : t[i] - t[j] <= 1
           /\ SumSeq(t) = a
           /\ \A i \in 1..n : t[i] <= max_blocks_per_day

\* a week with an uneven split: some days at quotient + 1, some at quotient
C6_Witness ==
    /\ InWeek
    /\ assignable % D # 0
    /\ \E d, e \in Range(week_days) : day_targets[d] = day_targets[e] + 1

\* the step that places a block
AssignTaken == pc = "block" /\ assigned_count' = assigned_count + 1

\* C7: a block goes to a day that already holds it only if every day with
\* capacity left already holds it; otherwise it goes to the first day, in
\* the rotated day order from the cursor, with capacity left and without it.
C7_FallbackOnlyWhenUnavoidable ==
    [][AssignTaken =>
         LET b == rotated_blocks[bi]
             chosen == CHOOSE d \in Range(week_days) :
                           Len(assignments'[d]) = Len(assignments[d]) + 1
             free == {d \in Range(week_days) :
                         day_remaining[d] > 0 /\ b \notin Range(assignments[d])}
             pos(d) == CHOOSE i \in 1..D : day_order[i] = d
             dist(d) == (pos(d) - 1 - day_idx) % D
         IN  /\ assignments'[chosen] = Append(assignments[chosen], b)
             /\ b \in Range(assignments[chosen]) => free = {}
             /\ free # {} =>
                   /\ chosen \in free
                   /\ \A e \in free : dist(chosen) <= dist(e)]_vars

\* the fallback has been used: some day holds a block twice
C7_Witness ==
    /\ InWeek
    /\ assigned_count >= 1
    /\ \E d \in Range(week_days) : ~NoRepeat(assignments[d])

\* C8: in a finished week every block occurs at most events_per_week times
\* over the week's days, and exactly events_per_week times when the demand
\* fits the capacity.
C8_EventsPerBlock ==
    /\ InWeek =>
          \A b \in 1..total_blocks :
             SumSeq([i \in 1..Len(week_days) |->
                       Occurrences(assignments[week_days[i]], b)])
                <= events_per_week
    /\ AllocDone /\ WeekRequired <= WeekCapacity =>
          \A b \in 1..total_blocks :
             SumSeq([i \in 1..Len(week_days) |->
                       Occurrences(assignments[week_days[i]], b)])
                = events_per_week

\* a finished week of several passes over several blocks that fits
C8_Witness ==
    /\ AllocDone
    /\ events_per_week >= 2
    /\ total_blocks >= 2
    /\ WeekRequired <= WeekCapacity
    /\ assigned_count = WeekRequired

\* C9: when a week's allocation is finished every day holds exactly its
\* target (nothing remains), any two days differ by at most 1 and the
\* counts never increase along the week; the rows carry the same counts.
C9_RealizedLeveled ==
    /\ AllocDone =>
          /\ \A d \in Range(week_days) :
                Len(assignments[d]) = day_targets[d] /\ day_remaining[d] = 0
          /\ \A i, j \in 1..Len(week_days) : DayCounts[i] - DayCounts[j] <= 1
          /\ \A i, j \in 1..Len(week_days) :
                i < j => DayCounts[i] >= DayCounts[j]
    /\ \A i, j \in DOMAIN rows :
          rows[i].week = rows[j].week =>
             /\ rows[i].count - rows[j].count <= 1
             /\ i < j => rows[i].count >= rows[j].count

\* a finished week whose earliest days carry one block more than the rest
C9_Witness ==
    /\ AllocDone
    /\ Len(week_days) >= 2
    /\ DayCounts[1] = DayCounts[Len(week_days)] + 1
    /\ \A d \in Range(week_days) : day_remaining[d] = 0

DaysPerWeek == IF rest_on_sunday THEN 6 ELSE 7

\* C10: every week has 7 eligible days (6 with the Sunday rest), all inside
\* its own window and the horizon; no week is skipped; the result has
\* weeks * 7 (weeks * 6) rows in ascending date order.
C10_FullWeeks ==
    /\ InWeek =>
          /\ D = DaysPerWeek
          /\ Len(week_days) = DaysPerWeek
          /\ \A d \in Range(week_days) :
                start_date + 7 * w <= d /\ d <= start_date + 7 * w + 6
    /\ pc = "done" /\ total_blocks >= 1 =>
          /\ Len(df) = weeks * DaysPerWeek
          /\ \A i, j \in DOMAIN df : i < j => df[i].date < df[j].date
          /\ \A i \in DOMAIN df :
                /\ start_date <= df[i].date
                /\ df[i].date <= start_date + weeks * 7 - 1
                /\ df[i].week = ((df[i].date - start_date) \div 7) + 1
                /\ rest_on_sunday => df[i].weekday # 6
          /\ \A wk \in 1..weeks : Len(RowsOfWeek(df, wk)) = DaysPerWeek

\* a finished two-week run with the Sunday rest, starting mid-week
C10_Witness ==
    /\ pc = "done"
    /\ weeks = 2
    /\ rest_on_sunday
    /\ Weekday(start_date) = 3
    /\ Len(df) = 12

====
